---- MODULE Spec2Model ----
(***************************************************************************)
(* Model of the Home page component of the AI Excel formula generator      *)
(* (src/src/pages/Home.tsx): the request lifecycle of generateFormula and  *)
(* the extraction of the formula and the explanation from the reply text.  *)
(*                                                                         *)
(* Texts are sequences of tokens.  The two header literals are one token   *)
(* each; every other token stands for one character.                       *)
(***************************************************************************)
EXTENDS Naturals, Sequences, FiniteSets

VARIABLES
    description,   \* useState('')   line 9, the textarea's text
    formula,       \* useState('')   line 10
    explanation,   \* useState('')   line 11
    loading,       \* useState(false) line 12
    error,         \* useState<string | null>(null) line 13
    genAI,         \* the imported client, null when no API key is configured (line 6)
    issued,        \* number of generateContent calls made so far (line 36)
    pending,       \* the calls whose promise has settled neither way yet
    service        \* the generation service: it answers any text, or one fixed text

vars == <<description, formula, explanation, loading, error, genAI, issued, pending, service>>

----------------------------------------------------------------------------
\* Bounds of the model.

MaxRespLen == 4
MaxParseLen == 5
MaxRequests == 2

----------------------------------------------------------------------------
\* Tokens.

FORMULA_HDR == "FORMULA:"
EXPLANATION_HDR == "EXPLANATION:"

\* What \s matches and what trim() removes.
WhiteSpace == {" ", "\n"}

\* What "." does not match when the regex has no s flag.
LineTerminators == {"\n"}

\* The character class ["'] of line 46.
Quotes == {"\"", "'"}

Null == "<null>"

ConfigMessage == "API key not configured. Please add your Gemini API key to continue."
ParseMessage == "Failed to parse AI response correctly"
GenericMessage == "An error occurred while generating the Excel formula"

\* Values the awaited call can throw: an Error with a message, or a value that
\* is not an Error.
Thrown ==
    { [isError |-> TRUE, message |-> "quota exceeded"],
      [isError |-> FALSE, message |-> "not an Error"] }

RECURSIVE SeqsOfLen(_, _)
SeqsOfLen(S, n) ==
    IF n = 0 THEN {<<>>}
    ELSE {Append(s, c) : s \in SeqsOfLen(S, n - 1), c \in S}

SeqsUpTo(S, n) == UNION {SeqsOfLen(S, k) : k \in 0..n}

\* Texts typed into the textarea: empty, whitespace only, and two with a
\* character in them.
Descriptions == {<<>>, <<" ">>, <<"a">>, <<" ", "a">>}
Responses == SeqsUpTo({FORMULA_HDR, EXPLANATION_HDR, "x"}, MaxRespLen)
ParseAlphabet == {FORMULA_HDR, EXPLANATION_HDR, " ", "\n", "\"", "'", "x"}

----------------------------------------------------------------------------
\* String operations.

SetMin(S) == CHOOSE x \in S : \A y \in S : x <= y
SetMax(S) == CHOOSE x \in S : \A y \in S : y <= x

\* String.prototype.trim
Trim(s) ==
    LET keep == {i \in 1..Len(s) : s[i] \notin WhiteSpace}
    IN  IF keep = {} THEN <<>> ELSE SubSeq(s, SetMin(keep), SetMax(keep))

\* Where a greedy \s*\n* that starts at p stops.
SkipWs(s, p) ==
    SetMin({q \in p..(Len(s) + 1) : q = Len(s) + 1 \/ s[q] \notin WhiteSpace})

\* The lookahead (?=\s*\n*EXPLANATION:) at position q.
ExplanationAhead(s, q) ==
    LET e == SkipWs(s, q)
    IN  e <= Len(s) /\ s[e] = EXPLANATION_HDR

\* response.match(/FORMULA:\s*\n*(.*?)(?=\s*\n*EXPLANATION:)/s): the leftmost
\* header at which the pattern matches; the group starts after the greedy
\* whitespace and, being lazy, ends at the first position the lookahead accepts.
FormulaMatch(s) ==
    LET starts == {i \in 1..Len(s) :
                      /\ s[i] = FORMULA_HDR
                      /\ \E q \in SkipWs(s, i + 1)..(Len(s) + 1) : ExplanationAhead(s, q)}
    IN  IF starts = {} THEN [matched |-> FALSE, group |-> <<>>]
        ELSE LET i == SetMin(starts)
                 g == SkipWs(s, i + 1)
                 q == SetMin({k \in g..(Len(s) + 1) : ExplanationAhead(s, k)})
             IN  [matched |-> TRUE, group |-> SubSeq(s, g, q - 1)]

\* response.match(/EXPLANATION:\s*\n*(.*)/s): the leftmost header; the group
\* is greedy and runs to the end of the text.
ExplanationMatch(s) ==
    LET starts == {i \in 1..Len(s) : s[i] = EXPLANATION_HDR}
    IN  IF starts = {} THEN [matched |-> FALSE, group |-> <<>>]
        ELSE LET i == SetMin(starts)
             IN  [matched |-> TRUE, group |-> SubSeq(s, SkipWs(s, i + 1), Len(s))]

\* rawFormula.replace(/^["'](.+)["']$/, '$1')
StripQuotes(raw) ==
    IF /\ Len(raw) >= 3
       /\ raw[1] \in Quotes
       /\ raw[Len(raw)] \in Quotes
       /\ \A k \in 2..(Len(raw) - 1) : raw[k] \notin LineTerminators
    THEN SubSeq(raw, 2, Len(raw) - 1)
    ELSE raw

----------------------------------------------------------------------------
\* The component.

Init ==
    /\ description = <<>>
    /\ formula = <<>>
    /\ explanation = <<>>
    /\ loading = FALSE
    /\ error = Null
    /\ genAI \in BOOLEAN
    /\ issued = 0
    /\ pending = {}
    /\ service = [fixed |-> FALSE, text |-> <<>>]

\* onChange of the textarea.
SetDescription ==
    /\ \E d \in Descriptions : description' = d
    /\ UNCHANGED <<formula, explanation, loading, error, genAI, issued, pending, service>>

\* The guard without the trim: only the empty text is refused.
BlankDescriptionUntrimmed == description = <<>>

\* !description.trim()
BlankDescription == Trim(description) = <<>>

\* A button that stays enabled while a request is in flight.
ButtonDisabledIgnoringLoading == Trim(description) = <<>>

\* disabled={loading || !description.trim()}
ButtonDisabled == loading \/ Trim(description) = <<>>

\* err instanceof Error ? err.message : '...'
ErrorMessage(err) == IF err.isError THEN err.message ELSE GenericMessage

\* A catch block that leaves the formula of an earlier success in place.
CatchFormulaKept == formula

\* setFormula('') and setExplanation('') of the catch block
CatchFormula == <<>>
CatchExplanation == <<>>

\* A missing finally block: the flag stays as it is.
FinallyLoadingKept == loading

\* setLoading(false) of the finally block
FinallyLoading == FALSE

\* catch (err) { ... } finally { ... }
Catch(message) ==
    /\ error' = message
    /\ formula' = CatchFormula
    /\ explanation' = CatchExplanation
    /\ loading' = FinallyLoading

\* generateFormula from its entry to the await of line 36, or to its end when
\* it returns or throws before the await.
GenerateFormula ==
    IF BlankDescription
    THEN UNCHANGED vars
    ELSE IF ~genAI
    THEN /\ Catch(ConfigMessage)
         /\ UNCHANGED <<description, genAI, issued, pending, service>>
    ELSE /\ issued < MaxRequests
         /\ loading' = TRUE
         /\ error' = Null
         /\ issued' = issued + 1
         /\ pending' = pending \cup {issued + 1}
         /\ UNCHANGED <<description, formula, explanation, genAI, service>>

\* A click on the button, which the browser delivers only when it is enabled.
ClickGenerate ==
    /\ ~ButtonDisabled
    /\ GenerateFormula

\* A call of generateFormula that does not go through the button.
DirectInvoke == GenerateFormula

\* Lines 40 to 51 on the text t: whether both matches succeed, and the values
\* handed to setFormula and setExplanation when they do.
ParseResponse(t) ==
    LET formulaMatch == FormulaMatch(t)
        explanationMatch == ExplanationMatch(t)
    IN  IF formulaMatch.matched /\ explanationMatch.matched
        THEN [ok |-> TRUE,
              formula |-> StripQuotes(Trim(formulaMatch.group)),
              explanation |-> Trim(explanationMatch.group)]
        ELSE [ok |-> FALSE, formula |-> <<>>, explanation |-> <<>>]

\* What parsing makes of the texts result.response.text() can return.
ResponseOutcomes == {ParseResponse(t) : t \in Responses}

ReplyOutcomes ==
    IF service.fixed THEN {ParseResponse(service.text)} ELSE ResponseOutcomes

\* The rest of generateFormula once the awaited call resolved with a text
\* that parses to the outcome o.
Continue(o) ==
    IF o.ok
    THEN /\ formula' = o.formula
         /\ explanation' = o.explanation
         /\ loading' = FinallyLoading
         /\ error' = error
    ELSE Catch(ParseMessage)

ResolveResponse(r) ==
    /\ r \in pending
    /\ pending' = pending \ {r}
    /\ UNCHANGED <<description, genAI, issued, service>>
    /\ \E o \in ReplyOutcomes : Continue(o)

\* The rest of generateFormula once the awaited call of request r rejected
\* with the value err.
RejectWith(r, err) ==
    /\ r \in pending
    /\ pending' = pending \ {r}
    /\ UNCHANGED <<description, genAI, issued, service>>
    /\ Catch(ErrorMessage(err))

RejectResponse(r) == \E err \in Thrown : RejectWith(r, err)

Resolve == \E r \in 1..MaxRequests : ResolveResponse(r)
Reject == \E r \in 1..MaxRequests : RejectResponse(r)

Next ==
    \/ SetDescription
    \/ ClickGenerate
    \/ DirectInvoke
    \/ Resolve
    \/ Reject

Spec == Init /\ [][Next]_vars

\* Submissions come from the button alone.
NextUI ==
    \/ SetDescription
    \/ ClickGenerate
    \/ Resolve
    \/ Reject

SpecUI == Init /\ [][NextUI]_vars

\* Every issued call settles: the promise of line 36 resolves or rejects.
Settles == \A r \in 1..MaxRequests : WF_vars(ResolveResponse(r) \/ RejectResponse(r))

FairSpec == Spec /\ Settles

\* The parser on every bounded reply text: a configured client whose service
\* answers each call of the run with one fixed text.
InitParse ==
    /\ description = <<"a">>
    /\ formula = <<>>
    /\ explanation = <<>>
    /\ loading = FALSE
    /\ error = Null
    /\ genAI = TRUE
    /\ issued = 0
    /\ pending = {}
    /\ service \in [fixed : {TRUE}, text : SeqsUpTo(ParseAlphabet, MaxParseLen)]

NextParse ==
    \/ ClickGenerate
    \/ Resolve

SpecParse == InitParse /\ [][NextParse]_vars

----------------------------------------------------------------------------
\* Properties.

\* A step in which the awaited call of request r settles.
Settled(r) == r \in pending /\ pending' = pending \ {r}

\* A step in which generateFormula issues a call.
Issues == issued' = issued + 1

\* C1: once a newer request has been issued, the completion of an older
\* request changes none of formula, explanation, error and loading.
C1_StaleCompletionDiscarded ==
    [][\A r \in pending :
          Settled(r) /\ r < issued
              => UNCHANGED <<formula, explanation, error, loading>>]_vars

\* C2: right after generateFormula issued a request, loading is true and
\* formula, explanation and error are all cleared.
C2_SubmissionClearsOutcome ==
    [][Issues => /\ loading' = TRUE
                 /\ formula' = <<>>
                 /\ explanation' = <<>>
                 /\ error' = Null]_vars

\* C3: loading never holds together with a published outcome (a non-null
\* error, or a non-empty formula or explanation).
C3_LoadingExcludesOutcome ==
    ~(loading /\ (error # Null \/ formula # <<>> \/ explanation # <<>>))

\* C4: formula and explanation are both empty or both non-empty.
C4_BothOrNeither == (formula = <<>>) <=> (explanation = <<>>)

\* The reply text of a run of SpecParse.
TheReply == service.text

HasFormulaHeader(t) == \E i \in 1..Len(t) : t[i] = FORMULA_HDR
HasExplanationHeader(t) == \E i \in 1..Len(t) : t[i] = EXPLANATION_HDR
FirstFormulaHeader(t) == SetMin({i \in 1..Len(t) : t[i] = FORMULA_HDR})

\* An EXPLANATION: header follows the first FORMULA: header.
ExplanationFollows(t) ==
    \E j \in (FirstFormulaHeader(t) + 1)..Len(t) : t[j] = EXPLANATION_HDR

\* The text between the first FORMULA: and the next EXPLANATION:.
Between(t) ==
    LET i == FirstFormulaHeader(t)
        j == SetMin({k \in (i + 1)..Len(t) : t[k] = EXPLANATION_HDR})
    IN  SubSeq(t, i + 1, j - 1)

\* The four cases in which C5 says the reply is malformed.
Malformed(t) ==
    \/ ~HasFormulaHeader(t)
    \/ ~HasExplanationHeader(t)
    \/ ~ExplanationFollows(t)
    \/ Trim(Between(t)) = <<>>

\* C5: a reply that lacks a header, has its EXPLANATION: header only before
\* the FORMULA: header, or has an empty formula segment, ends in the parse
\* error with formula and explanation empty.
C5_MalformedReplyFails ==
    [][(\E r \in pending : Settled(r)) /\ Malformed(TheReply)
          => /\ error' = ParseMessage
             /\ formula' = <<>>
             /\ explanation' = <<>>]_vars

\* A segment wrapped in a matching pair of quotes that spans it: the same
\* quote character at both ends, around at least one character.
WrappedInMatchingPair(seg) ==
    /\ Len(seg) >= 3
    /\ seg[1] \in Quotes
    /\ seg[Len(seg)] = seg[1]

MatchingPairStripped(seg) ==
    IF WrappedInMatchingPair(seg) THEN SubSeq(seg, 2, Len(seg) - 1) ELSE seg

\* C6: the published formula is the trimmed formula segment without its
\* outer quotes exactly when one matching pair of quotes wraps the segment,
\* and the segment itself otherwise.
C6_OnlyMatchingPairStripped ==
    [][(\E r \in pending : Settled(r))
          /\ FormulaMatch(TheReply).matched /\ ExplanationMatch(TheReply).matched
          => formula' = MatchingPairStripped(Trim(FormulaMatch(TheReply).group))]_vars

\* C7: when the awaited call fails, error is the failure's message (the
\* generic one when the value thrown is not an Error), loading is false and
\* formula and explanation are empty, whatever they were before.
C7_FailedCallEndsInError ==
    [][\A r \in pending, err \in Thrown :
          RejectWith(r, err)
              => /\ error' = (IF err.isError THEN err.message ELSE GenericMessage)
                 /\ loading' = FALSE
                 /\ formula' = <<>>
                 /\ explanation' = <<>>]_vars

\* A failed second call has cleared the outcome and the loading flag.
C7_Witness ==
    /\ error = "quota exceeded"
    /\ ~loading
    /\ formula = <<>>
    /\ explanation = <<>>
    /\ issued = 2
    /\ pending = {}

\* C8: while the description is empty or whitespace only, no call is issued,
\* and a step that settles no call leaves loading, error, formula and
\* explanation as they were.
C8_BlankDescriptionIsNoOp ==
    [][Trim(description) = <<>>
          => /\ issued' = issued
             /\ (pending' = pending
                    => UNCHANGED <<loading, error, formula, explanation>>)]_vars

\* A whitespace-only description next to the outcome of an earlier success.
C8_Witness ==
    /\ description = <<" ">>
    /\ formula # <<>>
    /\ explanation # <<>>
    /\ ~loading
    /\ pending = {}

\* C9: with submissions through the button alone, at most one request is in
\* flight.
C9_SingleFlight == Cardinality(pending) <= 1

\* The second request in flight after the first one settled.
C9_Witness == pending = {2} /\ loading

\* C10: every issued request settles with loading false.
C10_EveryRequestTerminates ==
    \A r \in 1..MaxRequests : (r \in pending) ~> (r \notin pending /\ ~loading)

\* Every request has settled, the last one in the parse error.
C10_Witness ==
    /\ issued = MaxRequests
    /\ pending = {}
    /\ ~loading
    /\ error = ParseMessage

====
